---- MODULE Spec2Model ----
(***************************************************************************)
(* Model of ytulum_configurator_app.py: a Streamlit script that prices a   *)
(* property purchase.  Streamlit runs the whole script, top to bottom,     *)
(* once when the page is opened and again after every widget interaction.  *)
(* A widget call returns the value the user last gave that widget; every   *)
(* other name of the script is rebound by the run.                         *)
(***************************************************************************)
EXTENDS Integers, Sequences, FiniteSets, TLC

(***************************************************************************)
(* Python floats.  A float is modelled as a floating-point number          *)
(* sg * m * Limb^e whose mantissa m is Prec limbs of four decimal digits,  *)
(* most significant first and not zero (13 to 16 significant digits for    *)
(* Prec = 4; binary64 has 15 to 17).  Every operation computes its exact   *)
(* result and cuts it to Prec limbs, as binary64 rounds its exact result   *)
(* to 53 bits; a result that fits is exact, in the model as in binary64.   *)
(***************************************************************************)
Limb == 10 ^ 4
Prec == 4

Abs(x) == IF x < 0 THEN -x ELSE x
Sgn(x) == IF x < 0 THEN -1 ELSE IF x = 0 THEN 0 ELSE 1
Min(a, b) == IF a <= b THEN a ELSE b
Max(a, b) == IF a >= b THEN a ELSE b

Zeros(n) == [i \in 1..n |-> 0]

Zero == [sg |-> 0, m |-> Zeros(Prec), e |-> 0]

RECURSIVE Strip(_)
Strip(L) == IF L = <<>> \/ L[1] # 0 THEN L ELSE Strip(Tail(L))

\* the float nearest below sg * L * Limb^e, L a sequence of limbs
NormSeq(sg, L, e) ==
  LET S == Strip(L)
      n == Len(S)
  IN  IF n = 0 \/ sg = 0 THEN Zero
      ELSE IF n >= Prec THEN [sg |-> sg, m |-> SubSeq(S, 1, Prec), e |-> e + n - Prec]
      ELSE [sg |-> sg, m |-> S \o Zeros(Prec - n), e |-> e - (Prec - n)]

\* carries (or borrows) moved leftwards: <<carry out>> \o limbs
RECURSIVE Prop(_, _, _)
Prop(cols, i, c) ==
  IF i = 0 THEN <<c>>
  ELSE LET v == cols[i] + c
       IN  Prop(cols, i - 1, v \div Limb) \o <<v % Limb>>

Propagate(cols) == Prop(cols, Len(cols), 0)

RECURSIVE SeqLess(_, _)
SeqLess(a, b) ==
  IF a = <<>> THEN FALSE
  ELSE IF a[1] # b[1] THEN a[1] < b[1]
  ELSE SeqLess(Tail(a), Tail(b))

\* float(n) for a Python int n
FromInt(n) ==
  LET a == Abs(n)
  IN  NormSeq(Sgn(n), <<a \div (Limb * Limb), (a \div Limb) % Limb, a % Limb>>, 0)

One == FromInt(1)

DecNeg(a) == [sg |-> -a.sg, m |-> a.m, e |-> a.e]
DecAbs(a) == [sg |-> Abs(a.sg), m |-> a.m, e |-> a.e]

RECURSIVE ColSum(_, _, _, _)
ColSum(x, y, k, i) ==
  IF i > Min(Len(x), k) THEN 0
  ELSE x[i] * y[k + 1 - i] + ColSum(x, y, k, i + 1)

\* a * b
DecMul(a, b) ==
  IF a.sg = 0 \/ b.sg = 0 THEN Zero
  ELSE LET cols == [k \in 1..(2 * Prec - 1) |->
                      ColSum(a.m, b.m, k, Max(1, k + 1 - Prec))]
       IN  NormSeq(a.sg * b.sg, Propagate(<<0>> \o cols), a.e + b.e)

\* the largest q <= qhat with q * Y <= R, and R - q * Y
RECURSIVE FindQ(_, _, _)
FindQ(R, Y, q) ==
  LET P == Propagate([i \in 1..Len(R) |-> R[i] - q * Y[i]])
  IN  IF P[1] >= 0 THEN <<q, Tail(P)>> ELSE FindQ(R, Y, q - 1)

\* long division of the limbs D[i..] by Y, R the remainder so far
RECURSIVE DivLoop(_, _, _, _)
DivLoop(R, D, i, Y) ==
  IF i > Len(D) THEN <<>>
  ELSE LET R1 == Tail(R) \o <<D[i]>>
           qr == FindQ(R1, Y, Min(Limb - 1, (R1[1] * Limb + R1[2]) \div Y[2]))
       IN  <<qr[1]>> \o DivLoop(qr[2], D, i + 1, Y)

\* a / b for b # 0 (Python raises ZeroDivisionError for b = 0: see CanDivide)
DecDiv(a, b) ==
  IF a.sg = 0 THEN Zero
  ELSE LET f  == Limb \div (b.m[1] + 1)
           Y  == Propagate([i \in 1..Prec |-> b.m[i] * f])
           X  == Propagate([i \in 1..Prec |-> a.m[i] * f]) \o Zeros(Prec)
       IN  NormSeq(a.sg * b.sg, DivLoop(Zeros(Prec + 1), X, 1, Y), a.e - b.e - Prec)

CanDivide(b) == b.sg # 0

\* a + b
DecAdd(a, b) ==
  IF a.sg = 0 THEN b
  ELSE IF b.sg = 0 THEN a
  ELSE LET hi == IF a.e >= b.e THEN a ELSE b
           lw == IF a.e >= b.e THEN b ELSE a
           d  == hi.e - lw.e
           H  == hi.m \o Zeros(d)
           L  == Zeros(d) \o lw.m
       IN  IF d > Prec + 1 THEN hi
           ELSE IF hi.sg = lw.sg
             THEN NormSeq(hi.sg, Propagate([i \in 1..(Prec + d) |-> H[i] + L[i]]), lw.e)
           ELSE IF SeqLess(H, L)
             THEN NormSeq(lw.sg, Propagate([i \in 1..(Prec + d) |-> L[i] - H[i]]), lw.e)
           ELSE NormSeq(hi.sg, Propagate([i \in 1..(Prec + d) |-> H[i] - L[i]]), lw.e)

DecSub(a, b) == DecAdd(a, DecNeg(b))

DecLe(a, b) == DecSub(a, b).sg <= 0

\* x ** n for an int n >= 0 (libm's pow), by repeated squaring
RECURSIVE DecPow(_, _)
DecPow(x, n) ==
  IF n = 0 THEN One
  ELSE LET h == DecPow(x, n \div 2)
       IN  IF n % 2 = 0 THEN DecMul(h, h) ELSE DecMul(DecMul(h, h), x)

\* the float that the decimal literal n / 10^k denotes
DecLit(n, k) == DecDiv(FromInt(n), FromInt(10 ^ k))

\* |x - y| <= tol
Within(x, y, tol) == DecLe(DecAbs(DecSub(x, y)), tol)

(***************************************************************************)
(* The configuration file (line 12).  A JSON object is a Python dict, which *)
(* keeps the order of the file: it is modelled as a sequence of entries     *)
(* with distinct keys.  base_price_usd is a number, or a dict from          *)
(* configuration to number: is_dict tells which, as isinstance does.        *)
(***************************************************************************)
MaxBuyers == 3

Reference ==
  [unit_types |-> <<
     [name |-> "Villa", configurations |-> <<"Standard">>,
      base_price_usd |-> [is_dict |-> FALSE, value |-> 300000],
      upgrades |-> << [name |-> "Ocean View", price |-> 25000],
                      [name |-> "Private Pool", price |-> 40000] >>],
     [name |-> "Studio", configurations |-> <<"Loft", "Garden">>,
      base_price_usd |-> [is_dict |-> TRUE,
                          value |-> [c \in {"Loft", "Garden"} |->
                                       IF c = "Loft" THEN 120000 ELSE 150000]],
      upgrades |-> << [name |-> "Ocean View", price |-> 25000] >>] >>,
   art_tiers |-> << [name |-> "None", multiplier |-> Zero],
                    [name |-> "Gold", multiplier |-> DecLit(5, 2)] >>,
   financing |-> [max_buyers |-> MaxBuyers,
                  downpayment_options_percent |-> <<20, 100>>,
                  loan_durations_years |-> <<1, 2>>,
                  interest_rate_annual |-> DecLit(5, 2)]]

\* one unit type, ten-year loans at 5 %
TenYear ==
  [unit_types |-> <<
     [name |-> "Villa", configurations |-> <<"Standard">>,
      base_price_usd |-> [is_dict |-> FALSE, value |-> 300000],
      upgrades |-> << [name |-> "Ocean View", price |-> 25000] >>] >>,
   art_tiers |-> << [name |-> "Gold", multiplier |-> DecLit(5, 2)] >>,
   financing |-> [max_buyers |-> 2,
                  downpayment_options_percent |-> <<20>>,
                  loan_durations_years |-> <<10>>,
                  interest_rate_annual |-> DecLit(5, 2)]]

\* interest-free loans
ZeroInterest ==
  [unit_types |-> <<
     [name |-> "Studio", configurations |-> <<"Loft">>,
      base_price_usd |-> [is_dict |-> FALSE, value |-> 120000],
      upgrades |-> << [name |-> "Terrace", price |-> 8000] >>] >>,
   art_tiers |-> << [name |-> "None", multiplier |-> Zero] >>,
   financing |-> [max_buyers |-> 2,
                  downpayment_options_percent |-> <<50, 100>>,
                  loan_durations_years |-> <<1>>,
                  interest_rate_annual |-> Zero]]

\* a loan duration of less than a year
ShortLoan ==
  [unit_types |-> <<
     [name |-> "Studio", configurations |-> <<"Loft">>,
      base_price_usd |-> [is_dict |-> FALSE, value |-> 120000],
      upgrades |-> << [name |-> "Terrace", price |-> 8000] >>] >>,
   art_tiers |-> << [name |-> "None", multiplier |-> Zero] >>,
   financing |-> [max_buyers |-> 2,
                  downpayment_options_percent |-> <<50, 100>>,
                  loan_durations_years |-> <<0, 1>>,
                  interest_rate_annual |-> DecLit(5, 2)]]

Catalogs == {Reference, TenYear, ZeroInterest, ShortLoan}

Range(f) == {f[i] : i \in DOMAIN f}

\* d[key] for a dict d given as a sequence of entries
Lookup(d, key) == CHOOSE x \in Range(d) : x.name = key

(***************************************************************************)
(* The script, section by section.                                         *)
(***************************************************************************)

\* line 25
BasePrice(unit_info, configuration) ==
  IF unit_info.base_price_usd.is_dict
    THEN unit_info.base_price_usd.value[configuration]
    ELSE unit_info.base_price_usd.value

\* (mutant) the two names keep what the previous run left in them
KeptUpgrades(prev) ==
  [selected_upgrades |-> prev.selected_upgrades, upgrade_total |-> prev.upgrade_total]

\* lines 29-30: both names are rebound by every run, whatever the previous
\* run (prev) left in them
NoUpgrades(prev) == [selected_upgrades |-> <<>>, upgrade_total |-> 0]

\* (mutant) the loop inserts at the front of the list
RECURSIVE UpgradeLoopNewestFirst(_, _, _, _)
UpgradeLoopNewestFirst(upgrades, checkbox, acc, i) ==
  IF i > Len(upgrades) THEN acc
  ELSE IF upgrades[i] \in checkbox
    THEN UpgradeLoopNewestFirst(upgrades, checkbox,
           [selected_upgrades |-> <<upgrades[i].name>> \o acc.selected_upgrades,
            upgrade_total |-> acc.upgrade_total + upgrades[i].price],
           i + 1)
  ELSE UpgradeLoopNewestFirst(upgrades, checkbox, acc, i + 1)

\* lines 31-34: the loop over the unit type's upgrades, from the i-th on;
\* checkbox is the set of the checkboxes that are ticked
RECURSIVE UpgradeLoop(_, _, _, _)
UpgradeLoop(upgrades, checkbox, acc, i) ==
  IF i > Len(upgrades) THEN acc
  ELSE IF upgrades[i] \in checkbox
    THEN UpgradeLoop(upgrades, checkbox,
           [selected_upgrades |-> Append(acc.selected_upgrades, upgrades[i].name),
            upgrade_total |-> acc.upgrade_total + upgrades[i].price],
           i + 1)
  ELSE UpgradeLoop(upgrades, checkbox, acc, i + 1)

\* line 40
ArtCost(base_price, art_multiplier) == DecMul(FromInt(base_price), art_multiplier)

\* (mutant) the upgrades are left out of the price
FinalPriceNoUpgrades(base_price, upgrade_total, art_cost) ==
  DecAdd(FromInt(base_price), art_cost)

\* line 50
FinalPrice(base_price, upgrade_total, art_cost) ==
  DecAdd(FromInt(base_price + upgrade_total), art_cost)

\* line 51
PricePerBuyer(final_price, num_buyers) == DecDiv(final_price, FromInt(num_buyers))

\* line 52
Downpayment(price_per_buyer, downpayment_percent) ==
  DecMul(price_per_buyer, DecDiv(FromInt(downpayment_percent), FromInt(100)))

\* line 53
LoanAmount(price_per_buyer, downpayment) == DecSub(price_per_buyer, downpayment)

\* line 54
Months(duration_years) == duration_years * 12

\* line 55
MonthlyInterest(interest_rate) == DecDiv(interest_rate, FromInt(12))

\* (mutant) the divisor without its "- 1"
AnnuityDivisorNoMinusOne(monthly_interest, months) ==
  DecPow(DecAdd(One, monthly_interest), months)

\* line 57: the divisor of the annuity formula
AnnuityDivisor(monthly_interest, months) ==
  DecSub(DecPow(DecAdd(One, monthly_interest), months), One)

\* lines 56-59: whether the expression raises ZeroDivisionError
PaymentRaises(downpayment_percent, monthly_interest, months) ==
  downpayment_percent < 100 /\ ~CanDivide(AnnuityDivisor(monthly_interest, months))

\* lines 56-59, when nothing is raised
MonthlyPayment(loan_amount, monthly_interest, months, downpayment_percent) ==
  IF downpayment_percent < 100
    THEN DecDiv(DecMul(loan_amount,
                       DecMul(monthly_interest,
                              DecPow(DecAdd(One, monthly_interest), months))),
                AnnuityDivisor(monthly_interest, months))
    ELSE Zero

\* (mutant) the downpayment is left out of the total
TotalPaidLoanOnly(downpayment, monthly_payment, months) ==
  DecMul(monthly_payment, FromInt(months))

\* line 60
TotalPaid(downpayment, monthly_payment, months) ==
  DecAdd(downpayment, DecMul(monthly_payment, FromInt(months)))

\* (mutant) the months are numbered from 0
LabelsArrayFromZero(months) ==
  <<"Downpayment">> \o [i \in 1..months |-> "Month " \o ToString(i - 1)]

\* line 100
LabelsArray(months) ==
  <<"Downpayment">> \o [i \in 1..months |-> "Month " \o ToString((i - 1) + 1)]

\* line 101
PaymentsArray(downpayment, monthly_payment, months) ==
  <<downpayment>> \o [i \in 1..months |-> monthly_payment]

\* lines 104-105, 110
slider_min == 6
SliderMax(months) == Max(slider_min + 6, months)
SliderValue(months) == Min(12, months)

\* line 106: st.slider raises StreamlitAPIException unless
\* min_value <= value <= max_value
SliderRaises(months) ==
  ~(slider_min <= SliderValue(months) /\ SliderValue(months) <= SliderMax(months))

\* the values the slider can be moved to
SliderSteps(months) ==
  {v \in slider_min..SliderMax(months) : (v - slider_min) % 6 = 0}

\* (mutant) the slice list[1:stop]
SliceAfterFirst(list, stop) == SubSeq(list, 2, Min(stop, Len(list)))

\* lines 114-115: a Python slice list[:stop]
Slice(list, stop) == SubSeq(list, 1, Min(stop, Len(list)))

\* line 137: ', '.join(selected_upgrades) if selected_upgrades else 'None'
RECURSIVE Join(_)
Join(names) ==
  IF names = <<>> THEN "None"
  ELSE IF Len(names) = 1 THEN names[1]
  ELSE names[1] \o ", " \o Join(Tail(names))

\* a float name that is not bound
Unbound == [sg |-> 0, m |-> <<>>, e |-> 0]

(***************************************************************************)
(* One run of the script.  ns is the run's namespace: the widgets' values  *)
(* w, the previous run prev, and the names the script binds, unbound at    *)
(* the start (Unbound, <<>> or 0).  Every statement maps the namespace to  *)
(* the next one.  A run ends at the first exception: error names it, and   *)
(* the statements after it are not executed.                               *)
(***************************************************************************)
Start(cfg, w, prev) ==
  [config |-> cfg, w |-> w, prev |-> prev, error |-> "",
   unit_info |-> <<>>, base_price |-> 0,
   selected_upgrades |-> <<>>, upgrade_total |-> 0,
   art_multiplier |-> Unbound, art_cost |-> Unbound, interest_rate |-> Unbound,
   final_price |-> Unbound, price_per_buyer |-> Unbound, downpayment |-> Unbound,
   loan_amount |-> Unbound, months |-> 0, monthly_interest |-> Unbound,
   monthly_payment |-> Unbound, total_paid |-> Unbound,
   labels_array |-> <<>>, payments_array |-> <<>>, slider_max |-> 0,
   months_to_show |-> 0, trimmed_labels |-> <<>>, trimmed_values |-> <<>>,
   pdf |-> <<>>]

Line19(ns) ==
  [ns EXCEPT !.unit_info = Lookup(ns.config.unit_types, ns.w.unit_type)]

Line25(ns) ==
  [ns EXCEPT !.base_price = BasePrice(ns.unit_info, ns.w.configuration)]

Lines29to34(ns) ==
  LET up == UpgradeLoop(ns.unit_info.upgrades, ns.w.checkbox, NoUpgrades(ns.prev), 1)
  IN  [ns EXCEPT !.selected_upgrades = up.selected_upgrades,
                 !.upgrade_total = up.upgrade_total]

Line39(ns) ==
  [ns EXCEPT !.art_multiplier = Lookup(ns.config.art_tiers, ns.w.art_tier).multiplier]

Line40(ns) ==
  [ns EXCEPT !.art_cost = ArtCost(ns.base_price, ns.art_multiplier)]

Line47(ns) ==
  [ns EXCEPT !.interest_rate = ns.config.financing.interest_rate_annual]

Line50(ns) ==
  [ns EXCEPT !.final_price = FinalPrice(ns.base_price, ns.upgrade_total, ns.art_cost)]

Line51(ns) ==
  [ns EXCEPT !.price_per_buyer = PricePerBuyer(ns.final_price, ns.w.num_buyers)]

Line52(ns) ==
  [ns EXCEPT !.downpayment = Downpayment(ns.price_per_buyer, ns.w.downpayment_percent)]

Line53(ns) ==
  [ns EXCEPT !.loan_amount = LoanAmount(ns.price_per_buyer, ns.downpayment)]

Line54(ns) ==
  [ns EXCEPT !.months = Months(ns.w.duration_years)]

Line55(ns) ==
  [ns EXCEPT !.monthly_interest = MonthlyInterest(ns.interest_rate)]

Lines56to59(ns) ==
  IF PaymentRaises(ns.w.downpayment_percent, ns.monthly_interest, ns.months)
    THEN [ns EXCEPT !.error = "ZeroDivisionError"]
    ELSE [ns EXCEPT !.monthly_payment =
            MonthlyPayment(ns.loan_amount, ns.monthly_interest, ns.months,
                           ns.w.downpayment_percent)]

Line60(ns) ==
  IF ns.error # "" THEN ns
  ELSE [ns EXCEPT !.total_paid = TotalPaid(ns.downpayment, ns.monthly_payment, ns.months)]

Lines100to105(ns) ==
  IF ns.error # "" THEN ns
  ELSE [ns EXCEPT !.labels_array = LabelsArray(ns.months),
                  !.payments_array =
                     PaymentsArray(ns.downpayment, ns.monthly_payment, ns.months),
                  !.slider_max = SliderMax(ns.months)]

\* the slider returns the value it was moved to (w.moved_to, 0: not moved in
\* this interaction); untouched, it returns its previous value if the
\* previous run drew it with the same parameters, and else its default value
Lines106to112(ns) ==
  IF ns.error # "" THEN ns
  ELSE IF SliderRaises(ns.months) THEN [ns EXCEPT !.error = "StreamlitAPIException"]
  ELSE [ns EXCEPT !.months_to_show =
          IF ns.w.moved_to # 0 THEN ns.w.moved_to
          ELSE IF /\ ns.prev.error = ""
                  /\ ns.prev.slider_max = SliderMax(ns.months)
                  /\ SliderValue(ns.prev.months) = SliderValue(ns.months)
            THEN ns.prev.months_to_show
          ELSE SliderValue(ns.months)]

Lines114to115(ns) ==
  IF ns.error # "" THEN ns
  ELSE [ns EXCEPT !.trimmed_labels = Slice(ns.labels_array, ns.months_to_show + 1),
                  !.trimmed_values = Slice(ns.payments_array, ns.months_to_show + 1)]

\* the PDF's text, when the run was started by the button
Lines129to146(ns) ==
  IF ns.error # "" \/ ~ns.w.button THEN ns
  ELSE [ns EXCEPT !.pdf =
          << [unit_type |-> ns.w.unit_type, configuration |-> ns.w.configuration,
              base_price |-> ns.base_price,
              selected_upgrades |-> Join(ns.selected_upgrades),
              upgrade_total |-> ns.upgrade_total,
              art_tier |-> ns.w.art_tier, art_cost |-> ns.art_cost,
              final_price |-> ns.final_price, num_buyers |-> ns.w.num_buyers,
              downpayment |-> ns.downpayment, loan_amount |-> ns.loan_amount,
              monthly_payment |-> ns.monthly_payment, months |-> ns.months,
              total_paid |-> ns.total_paid] >>]

\* what the run leaves: the names it bound (the previous run is gone)
Finish(ns) == [ns EXCEPT !.prev = <<>>, !.config = <<>>, !.w = <<>>, !.unit_info = <<>>]

Script(cfg, w, prev) ==
  Finish(Lines129to146(Lines114to115(Lines106to112(Lines100to105(Line60(
    Lines56to59(Line55(Line54(Line53(Line52(Line51(Line50(Line47(Line40(
      Line39(Lines29to34(Line25(Line19(Start(cfg, w, prev))))))))))))))))))))

\* what there is before the first run
FirstRun == [Finish(Start(<<>>, <<>>, <<>>)) EXCEPT !.error = "not run"]

(***************************************************************************)
(* State: the configuration, the widgets' values (under the names the      *)
(* script gives them), the names the last run bound, and ticked: the       *)
(* upgrades that are ticked, in the order in which the user ticked them.   *)
(***************************************************************************)
VARIABLES config, unit_type, configuration, checkbox, art_tier, num_buyers,
          downpayment_percent, duration_years, run, ticked

widgets == <<unit_type, configuration, checkbox, art_tier, num_buyers,
             downpayment_percent, duration_years>>
vars == <<config, unit_type, configuration, checkbox, art_tier, num_buyers,
          downpayment_percent, duration_years, run, ticked>>

\* the widgets' values after an interaction, as the next run reads them
Widgets(u, c, cb, a, n, d, y, moved_to, button) ==
  [unit_type |-> u, configuration |-> c, checkbox |-> cb, art_tier |-> a,
   num_buyers |-> n, downpayment_percent |-> d, duration_years |-> y,
   moved_to |-> moved_to, button |-> button]

\* an interaction sets the widgets and reruns the script
Rerun(w) ==
  /\ unit_type' = w.unit_type
  /\ configuration' = w.configuration
  /\ checkbox' = w.checkbox
  /\ art_tier' = w.art_tier
  /\ num_buyers' = w.num_buyers
  /\ downpayment_percent' = w.downpayment_percent
  /\ duration_years' = w.duration_years
  /\ run' = Script(config, w, run)
  /\ config' = config

\* the page is opened: every selectbox shows its first option, no checkbox is
\* ticked, the number input shows its value=1 (lines 18-46)
Init ==
  /\ config \in Catalogs
  /\ unit_type = config.unit_types[1].name
  /\ configuration = config.unit_types[1].configurations[1]
  /\ checkbox = {}
  /\ art_tier = config.art_tiers[1].name
  /\ num_buyers = 1
  /\ downpayment_percent = config.financing.downpayment_options_percent[1]
  /\ duration_years = config.financing.loan_durations_years[1]
  /\ run = Script(config,
                  Widgets(unit_type, configuration, checkbox, art_tier, num_buyers,
                          downpayment_percent, duration_years, 0, FALSE),
                  FirstRun)
  /\ ticked = <<>>

Remove(seq, names) == SelectSeq(seq, LAMBDA n : n \notin names)

\* line 18.  The configuration selectbox keeps its choice if the new unit type
\* offers the same options, and a checkbox keeps its tick if the new unit type
\* has a checkbox with the same label (same upgrade, same price)
SelectUnitType(u) ==
  LET old == Lookup(config.unit_types, unit_type)
      new == Lookup(config.unit_types, u)
      cb  == checkbox \cap Range(new.upgrades)
  IN  /\ u # unit_type
      /\ ticked' = Remove(ticked, {b.name : b \in checkbox \ cb})
      /\ Rerun(Widgets(u,
                       IF new.configurations = old.configurations
                         THEN configuration ELSE new.configurations[1],
                       cb, art_tier, num_buyers, downpayment_percent,
                       duration_years, 0, FALSE))

\* line 22
SelectConfiguration(c) ==
  /\ c # configuration
  /\ ticked' = ticked
  /\ Rerun(Widgets(unit_type, c, checkbox, art_tier, num_buyers,
                   downpayment_percent, duration_years, 0, FALSE))

\* line 32: the checkbox of upgrade b is ticked or unticked
ToggleUpgrade(b) ==
  /\ ticked' = IF b \in checkbox THEN Remove(ticked, {b.name})
               ELSE Append(ticked, b.name)
  /\ Rerun(Widgets(unit_type, configuration,
                   IF b \in checkbox THEN checkbox \ {b} ELSE checkbox \cup {b},
                   art_tier, num_buyers, downpayment_percent, duration_years,
                   0, FALSE))

\* line 38
SelectArtTier(a) ==
  /\ a # art_tier
  /\ ticked' = ticked
  /\ Rerun(Widgets(unit_type, configuration, checkbox, a, num_buyers,
                   downpayment_percent, duration_years, 0, FALSE))

\* line 44
SetNumBuyers(n) ==
  /\ n # num_buyers
  /\ ticked' = ticked
  /\ Rerun(Widgets(unit_type, configuration, checkbox, art_tier, n,
                   downpayment_percent, duration_years, 0, FALSE))

\* line 45
SelectDownpayment(d) ==
  /\ d # downpayment_percent
  /\ ticked' = ticked
  /\ Rerun(Widgets(unit_type, configuration, checkbox, art_tier, num_buyers,
                   d, duration_years, 0, FALSE))

\* line 46
SelectDuration(y) ==
  /\ y # duration_years
  /\ ticked' = ticked
  /\ Rerun(Widgets(unit_type, configuration, checkbox, art_tier, num_buyers,
                   downpayment_percent, y, 0, FALSE))

\* line 106: the slider is there to move if the last run drew it
MoveSlider(v) ==
  /\ run.error = ""
  /\ v # run.months_to_show
  /\ ticked' = ticked
  /\ Rerun(Widgets(unit_type, configuration, checkbox, art_tier, num_buyers,
                   downpayment_percent, duration_years, v, FALSE))

\* line 129: the button is there to click if the last run drew it
GeneratePDF ==
  /\ run.error = ""
  /\ ticked' = ticked
  /\ Rerun(Widgets(unit_type, configuration, checkbox, art_tier, num_buyers,
                   downpayment_percent, duration_years, 0, TRUE))

Next ==
  \/ \E u \in {t.name : t \in Range(config.unit_types)} : SelectUnitType(u)
  \/ \E c \in Range(Lookup(config.unit_types, unit_type).configurations) :
       SelectConfiguration(c)
  \/ \E b \in Range(Lookup(config.unit_types, unit_type).upgrades) : ToggleUpgrade(b)
  \/ \E a \in {t.name : t \in Range(config.art_tiers)} : SelectArtTier(a)
  \/ \E n \in 1..config.financing.max_buyers : SetNumBuyers(n)
  \/ \E d \in Range(config.financing.downpayment_options_percent) : SelectDownpayment(d)
  \/ \E y \in Range(config.financing.loan_durations_years) : SelectDuration(y)
  \/ \E v \in SliderSteps(run.months) : MoveSlider(v)
  \/ GeneratePDF

Spec == Init /\ [][Next]_vars

(***************************************************************************)
(* Properties.                                                             *)
(***************************************************************************)
unit_info == Lookup(config.unit_types, unit_type)

RECURSIVE SumPrices(_)
SumPrices(S) ==
  IF S = {} THEN 0
  ELSE LET b == CHOOSE b \in S : TRUE
       IN  b.price + SumPrices(S \ {b})

\* the run without the chart's window and the PDF
QuoteOf(r) ==
  [r EXCEPT !.months_to_show = 0, !.trimmed_labels = <<>>,
            !.trimmed_values = <<>>, !.pdf = <<>>]

\* a run of the script on the current widgets with no run before it
FreshRun ==
  Script(config,
         Widgets(unit_type, configuration, checkbox, art_tier, num_buyers,
                 downpayment_percent, duration_years, 0, FALSE),
         FirstRun)

\* lines 50-60 were executed
QuoteComputed == run.error # "ZeroDivisionError"

\* C1: in every run, art_cost is base_price * art_multiplier, final_price is
\* base_price + upgrade_total + art_cost, and price_per_buyer * num_buyers is
\* final_price to within a relative 10^-6
C1_Conservation ==
  /\ run.art_cost = DecMul(FromInt(run.base_price), run.art_multiplier)
  /\ run.final_price = DecAdd(DecAdd(FromInt(run.base_price), FromInt(run.upgrade_total)),
                              run.art_cost)
  /\ Within(DecMul(run.price_per_buyer, FromInt(num_buyers)), run.final_price,
            DecMul(run.final_price, DecLit(1, 6)))

\* three buyers, an upgrade and an art tier, and a split that is not exact
C1_Witness ==
  /\ num_buyers = 3
  /\ run.upgrade_total > 0
  /\ run.art_cost.sg = 1
  /\ DecMul(run.price_per_buyer, FromInt(num_buyers)) # run.final_price

\* C2 (as claimed): a selection that is out of range (here: a loan of
\* months <= 0) is rejected with SelectionError and no quote is computed
C2_Rejected ==
  (\/ num_buyers \notin 1..config.financing.max_buyers
   \/ downpayment_percent \notin Range(config.financing.downpayment_options_percent)
   \/ duration_years \notin Range(config.financing.loan_durations_years)
   \/ Months(duration_years) <= 0)
  => run.error = "SelectionError" /\ run.total_paid = Unbound

\* C3 (as claimed): at an interest rate of 0 and a downpayment below 100 %
\* the run does not fail and monthly_payment is loan_amount / months
C3_ZeroInterest ==
  (run.monthly_interest = Zero /\ downpayment_percent < 100 /\ run.months > 0)
  => /\ run.error = ""
     /\ run.monthly_payment = DecDiv(run.loan_amount, FromInt(run.months))

\* C4: at a downpayment of 100 % the loan amount and the monthly payment
\* are 0 and the total paid is the downpayment, which is the price per buyer
C4_FullDownpayment ==
  downpayment_percent = 100
  => /\ QuoteComputed
     /\ run.loan_amount = Zero
     /\ run.monthly_payment = Zero
     /\ run.total_paid = run.downpayment
     /\ run.downpayment = run.price_per_buyer

\* 100 % down on an interest-free loan, split between two buyers
C4_Witness ==
  /\ downpayment_percent = 100
  /\ run.monthly_interest = Zero
  /\ num_buyers = 2
  /\ run.total_paid = run.price_per_buyer

C6_FreshQuote ==
  /\ [](/\ QuoteOf(run) = QuoteOf(FreshRun)
        /\ run.upgrade_total = SumPrices(checkbox)
        /\ checkbox \subseteq Range(unit_info.upgrades))
  /\ [][widgets' = widgets => QuoteOf(run') = QuoteOf(run)]_vars

\* a PDF of the Studio after the Villa, whose pool did not carry over
C6_Witness ==
  /\ unit_type = "Studio"
  /\ configuration = "Garden"
  /\ run.selected_upgrades = <<"Ocean View">>
  /\ ticked = <<"Ocean View">>
  /\ run.pdf # <<>>

\* the chart's window is a prefix of the schedule that starts with the
\* downpayment
TrimmedIsPrefix ==
  /\ run.trimmed_labels = SubSeq(run.labels_array, 1, Len(run.trimmed_labels))
  /\ run.trimmed_values = SubSeq(run.payments_array, 1, Len(run.trimmed_values))
  /\ Len(run.trimmed_labels) = Len(run.trimmed_values)
  /\ Len(run.trimmed_labels) >= 1
  /\ run.trimmed_labels[1] = "Downpayment"
  /\ run.trimmed_values[1] = run.downpayment

\* C7: moving the slider leaves the schedule and the quote as they were, and
\* the window it gives is a prefix of the schedule starting with the downpayment
C7_TrimFrame ==
  [][ (run'.error = "" /\ widgets' = widgets /\ run'.months_to_show # run.months_to_show)
      => /\ QuoteOf(run') = QuoteOf(run)
         /\ Len(run'.labels_array) = run'.months + 1
         /\ TrimmedIsPrefix' ]_vars

\* a window of 6 months on a two-year schedule
C7_Witness ==
  /\ run.error = ""
  /\ run.months = 24
  /\ run.months_to_show = 6
  /\ Len(run.trimmed_labels) = 7
  /\ Len(run.labels_array) = 25

\* the ticked upgrades of the unit type, in the configuration's order
TickedInCatalogOrder ==
  LET sel == SelectSeq(unit_info.upgrades, LAMBDA b : b \in checkbox)
  IN  [i \in 1..Len(sel) |-> sel[i].name]

\* C8 (as claimed): upgrade_total is the sum of the prices of the ticked
\* upgrades and selected_upgrades lists them in the order they were ticked
C8_SelectionOrder ==
  /\ run.upgrade_total = SumPrices(checkbox)
  /\ run.selected_upgrades = ticked

\* C8 (amended): upgrade_total is the sum of the prices of the ticked
\* upgrades and selected_upgrades lists them, each once, in the order of the
\* configuration file
C8_CatalogOrder ==
  /\ run.upgrade_total = SumPrices(checkbox)
  /\ run.selected_upgrades = TickedInCatalogOrder
  /\ Range(run.selected_upgrades) = Range(ticked)
  /\ Len(run.selected_upgrades) = Len(ticked)

\* the pool ticked before the ocean view
C8_Witness ==
  /\ ticked = <<"Private Pool", "Ocean View">>
  /\ run.selected_upgrades = <<"Ocean View", "Private Pool">>
  /\ run.upgrade_total = 65000

\* the example: 300000 flat, Ocean View, art at 5 %, 2 buyers, 20 % down,
\* 10 years at 5 %
Example ==
  /\ config = TenYear
  /\ checkbox = {[name |-> "Ocean View", price |-> 25000]}
  /\ num_buyers = 2
  /\ downpayment_percent = 20
  /\ duration_years = 10

ExampleQuote ==
  /\ run.error = ""
  /\ run.art_cost = FromInt(15000)
  /\ run.final_price = FromInt(340000)
  /\ run.price_per_buyer = FromInt(170000)
  /\ run.downpayment = FromInt(34000)
  /\ run.loan_amount = FromInt(136000)
  /\ run.months = 120

\* C9 (as claimed): in the example the monthly payment is 1442.84 to within
\* 0.01 and the total paid 207140.80 to within 0.5
C9_ExampleAsClaimed ==
  Example
  => /\ ExampleQuote
     /\ Within(run.monthly_payment, DecLit(144284, 2), DecLit(1, 2))
     /\ Within(run.total_paid, DecLit(20714080, 2), DecLit(5, 1))

\* C9 (amended): in the example the monthly payment is 1442.49 to within
\* 0.01 and the total paid 207098.92 to within 0.5
C9_Example ==
  Example
  => /\ ExampleQuote
     /\ Within(run.monthly_payment, DecLit(144249, 2), DecLit(1, 2))
     /\ Within(run.total_paid, DecLit(20709892, 2), DecLit(5, 1))

\* the example is selected and its payment computed
C9_Witness ==
  /\ Example
  /\ run.error = ""
  /\ run.monthly_payment.sg = 1

\* C10 (as claimed): whenever the slider is reached its default value is
\* within [slider_min, slider_max] and on the grid of step 6, and the window
\* has months_to_show + 1 entries, months_to_show <= months
C10_SliderWellFormed ==
  QuoteComputed
  => /\ slider_min <= SliderValue(run.months)
     /\ SliderValue(run.months) <= run.slider_max
     /\ (SliderValue(run.months) - slider_min) % 6 = 0
     /\ run.error = ""
     /\ run.months_to_show <= run.months
     /\ Len(run.trimmed_labels) = run.months_to_show + 1
====
